---- MODULE Spec2Model ----
(***************************************************************************)
(* Voiceover pipeline of pdf-split-read-rag (src/voiceover_system.py):     *)
(* text preprocessing, pause splitting, TTS chunking, caption timing and   *)
(* the generate_speech request with its temporary files and external       *)
(* calls (TTS, ffprobe, ffmpeg).                                           *)
(*                                                                         *)
(* Text is a sequence of one-character strings.  "P" stands for one        *)
(* occurrence of a pause marker written without inner blanks               *)
(* ("--pause--"), which the pause pattern matches and str.split() keeps in *)
(* one word; its length is counted as one character.  Lengths are scaled:  *)
(* the model's texts are a few characters long, and the character limits   *)
(* are scaled with them so that the over-limit branches are taken.         *)
(* Times are exact rationals [n, d] in seconds; the rounding of Python     *)
(* floats is not modelled.                                                 *)
(***************************************************************************)
EXTENDS Integers, Sequences, FiniteSets, TLC

\* ------------------------------------------------------------------ bounds
MaxTextLen == 5

Alphabet == {"a", " ", ".", "P", "%"}

\* ------------------------------------------------------------- rationals
RECURSIVE GCD(_, _)
GCD(a, b) == IF b = 0 THEN a ELSE GCD(b, a % b)

Rat(n, d) ==
    LET g == GCD(n, d)
    IN  IF g = 0 THEN [n |-> 0, d |-> 1] ELSE [n |-> n \div g, d |-> d \div g]

RZero == [n |-> 0, d |-> 1]
RAdd(x, y) == Rat(x.n * y.d + y.n * x.d, x.d * y.d)
RSub(x, y) == Rat(x.n * y.d - y.n * x.d, x.d * y.d)
RMul(x, y) == Rat(x.n * y.n, x.d * y.d)
RLe(x, y) == x.n * y.d <= y.n * x.d
RLt(x, y) == x.n * y.d < y.n * x.d

\* ---------------------------------------------------------------- strings
IsSpace(c) == c = " "
IsTerminator(c) == c \in {".", "!", "?"}
IsPauseMarker(c) == c = "P"

RECURSIVE LStrip(_)
LStrip(s) == IF s # <<>> /\ IsSpace(Head(s)) THEN LStrip(Tail(s)) ELSE s

RECURSIVE RStrip(_)
RStrip(s) ==
    IF s # <<>> /\ IsSpace(s[Len(s)]) THEN RStrip(SubSeq(s, 1, Len(s) - 1)) ELSE s

\* str.strip()
Strip(s) == RStrip(LStrip(s))

\* str.split(): the maximal runs of non-blank characters
RECURSIVE SplitWordsAcc(_, _, _, _)
SplitWordsAcc(s, i, cur, acc) ==
    IF i > Len(s) THEN (IF cur = <<>> THEN acc ELSE Append(acc, cur))
    ELSE IF IsSpace(s[i])
         THEN SplitWordsAcc(s, i + 1, <<>>, IF cur = <<>> THEN acc ELSE Append(acc, cur))
         ELSE SplitWordsAcc(s, i + 1, Append(cur, s[i]), acc)

SplitWords(s) == SplitWordsAcc(s, 1, <<>>, <<>>)

\* ' '.join(parts)
RECURSIVE JoinSpace(_)
JoinSpace(parts) ==
    IF parts = <<>> THEN <<>>
    ELSE IF Len(parts) = 1 THEN parts[1]
    ELSE parts[1] \o <<" ">> \o JoinSpace(Tail(parts))

\* f"{a} {b}".strip()
JoinStrip(a, b) == Strip(a \o <<" ">> \o b)

\* [s.strip() for s in parts if s.strip()]
RECURSIVE StripNonEmpty(_)
StripNonEmpty(parts) ==
    IF parts = <<>> THEN <<>>
    ELSE LET h == Strip(Head(parts))
         IN  IF h = <<>> THEN StripNonEmpty(Tail(parts))
             ELSE <<h>> \o StripNonEmpty(Tail(parts))

\* re.split(r'[.!?]+', s): split at every run of sentence terminators
RECURSIVE SplitTerminatorRuns(_, _, _, _, _)
SplitTerminatorRuns(s, i, cur, acc, inrun) ==
    IF i > Len(s) THEN Append(acc, cur)
    ELSE IF IsTerminator(s[i])
         THEN IF inrun THEN SplitTerminatorRuns(s, i + 1, cur, acc, TRUE)
              ELSE SplitTerminatorRuns(s, i + 1, <<>>, Append(acc, cur), TRUE)
         ELSE SplitTerminatorRuns(s, i + 1, Append(cur, s[i]), acc, FALSE)

\* first index >= i of s that holds no blank (Len(s) + 1 when there is none)
RECURSIVE SkipSpaces(_, _)
SkipSpaces(s, i) == IF i <= Len(s) /\ IsSpace(s[i]) THEN SkipSpaces(s, i + 1) ELSE i

\* re.split(r'(?<=[.!?])\s+', s): split at blanks that follow a terminator
RECURSIVE SplitSentences(_, _, _, _)
SplitSentences(s, i, cur, acc) ==
    IF i > Len(s) THEN Append(acc, cur)
    ELSE IF IsSpace(s[i]) /\ i > 1 /\ IsTerminator(s[i - 1])
         THEN SplitSentences(s, SkipSpaces(s, i), <<>>, Append(acc, cur))
         ELSE SplitSentences(s, i + 1, Append(cur, s[i]), acc)

\* re.split(pause_pattern, s): split at every pause marker
RECURSIVE SplitPauseMarkers(_, _, _, _)
SplitPauseMarkers(s, i, cur, acc) ==
    IF i > Len(s) THEN Append(acc, cur)
    ELSE IF IsPauseMarker(s[i])
         THEN SplitPauseMarkers(s, i + 1, <<>>, Append(acc, cur))
         ELSE SplitPauseMarkers(s, i + 1, Append(cur, s[i]), acc)

\* text.replace('%', ' percent')
RECURSIVE ReplacePercent(_)
ReplacePercent(s) ==
    IF s = <<>> THEN <<>>
    ELSE (IF Head(s) = "%" THEN <<" ", "p", "e", "r", "c", "e", "n", "t">> ELSE <<Head(s)>>)
         \o ReplacePercent(Tail(s))

\* _preprocess_text_for_tts
PreprocessTextForTts(text) ==
    IF text = <<>> THEN text ELSE JoinSpace(SplitWords(ReplacePercent(text)))

\* ---------------------------------------------------------- caption timing
\* the grouping loop of _split_text_into_timed_sections
RECURSIVE GroupSentences(_, _, _, _, _)
GroupSentences(sentences, i, sections, current_section, max_chars_per_section) ==
    IF i > Len(sentences)
    THEN (IF current_section # <<>> THEN Append(sections, current_section) ELSE sections)
    ELSE LET sentence == sentences[i]
             test_section == JoinStrip(current_section, sentence)
         IN  IF Len(test_section) <= max_chars_per_section
             THEN GroupSentences(sentences, i + 1, sections, test_section,
                                 max_chars_per_section)
             ELSE IF current_section # <<>>
                  THEN GroupSentences(sentences, i + 1, Append(sections, current_section),
                                      sentence, max_chars_per_section)
                  ELSE GroupSentences(sentences, i + 1, Append(sections, sentence),
                                      <<>>, max_chars_per_section)

\* section_duration = duration * (word_count / total_words)
SectionDuration_EqualShare(dur, word_count, total_words, n_sections) ==
    RMul(dur, Rat(1, n_sections))

SectionDuration(dur, word_count, total_words, n_sections) ==
    RMul(dur, Rat(word_count, total_words))

\* current_time = end_time
AdvanceTime_Stale(current_time, end_time) == current_time

AdvanceTime(current_time, end_time) == end_time

RECURSIVE SumWordCounts(_)
SumWordCounts(counts) ==
    IF counts = <<>> THEN 0 ELSE Head(counts) + SumWordCounts(Tail(counts))

\* the timing loop of _split_text_into_timed_sections
RECURSIVE TimeSections(_, _, _, _, _, _)
TimeSections(sections, total_words, dur, i, current_time, timed_sections) ==
    IF i > Len(sections) THEN timed_sections
    ELSE LET word_count == Len(SplitWords(sections[i]))
             section_duration == SectionDuration(dur, word_count, total_words, Len(sections))
             start_time == current_time
             end_time == RAdd(current_time, section_duration)
         IN  TimeSections(sections, total_words, dur, i + 1,
                          AdvanceTime(current_time, end_time),
                          Append(timed_sections,
                                 [text |-> sections[i], start |-> start_time,
                                  end |-> end_time, word_count |-> word_count,
                                  duration |-> section_duration]))

SplitTextIntoTimedSections(text, dur, max_chars_per_section) ==
    IF text = <<>> \/ dur.n <= 0 THEN <<>>
    ELSE LET clean_text == Strip(text)
             sentences == StripNonEmpty(SplitTerminatorRuns(clean_text, 1, <<>>, <<>>, FALSE))
             grouped == GroupSentences(sentences, 1, <<>>, <<>>, max_chars_per_section)
             sections == IF grouped = <<>>
                         THEN <<SubSeq(clean_text, 1, max_chars_per_section)>>
                         ELSE grouped
             total_words == SumWordCounts([k \in 1..Len(sections) |->
                                              Len(SplitWords(sections[k]))])
         IN  IF clean_text = <<>> THEN <<>>
             ELSE IF sentences = <<>> THEN <<>>
             ELSE TimeSections(sections, total_words, dur, 1, RZero, <<>>)

\* wrap_text_for_video of _build_timed_drawtext_chain: the word loop
RECURSIVE WrapWords(_, _, _, _, _)
WrapWords(words, i, wrapped, current_line, max_chars_per_line) ==
    IF i > Len(words)
    THEN (IF current_line # <<>> THEN Append(wrapped, current_line) ELSE wrapped)
    ELSE LET test_line == JoinStrip(current_line, words[i])
         IN  IF Len(test_line) <= max_chars_per_line
             THEN WrapWords(words, i + 1, wrapped, test_line, max_chars_per_line)
             ELSE IF current_line # <<>>
                  THEN WrapWords(words, i + 1, Append(wrapped, current_line), words[i],
                                 max_chars_per_line)
                  ELSE WrapWords(words, i + 1, wrapped, words[i], max_chars_per_line)

WrapTextForVideo(text, max_chars_per_line) ==
    IF Len(text) <= max_chars_per_line THEN <<text>>
    ELSE WrapWords(SplitWords(text), 1, <<>>, <<>>, max_chars_per_line)

\* the enable expression of a caption's drawtext filter: between(t, start, end),
\* which ffmpeg evaluates as start <= t <= end
OverlayEnabled(cap, t) == RLe(cap.start, t) /\ RLe(t, cap.end)

\* ------------------------------------------------------------ TTS chunking
\* word_chunk = word, when the word does not fit the running word chunk
OverflowWordChunk_Dropped(word) == <<>>

OverflowWordChunk(word) == word

\* the word loop of _chunk_text_for_tts: [chunks, word_chunk]
RECURSIVE ChunkWords(_, _, _, _, _)
ChunkWords(words, i, chunks, word_chunk, max_chars) ==
    IF i > Len(words) THEN [chunks |-> chunks, word_chunk |-> word_chunk]
    ELSE LET test_word_chunk == JoinStrip(word_chunk, words[i])
         IN  IF Len(test_word_chunk) <= max_chars
             THEN ChunkWords(words, i + 1, chunks, test_word_chunk, max_chars)
             ELSE ChunkWords(words, i + 1,
                             IF word_chunk # <<>> THEN Append(chunks, word_chunk) ELSE chunks,
                             OverflowWordChunk(words[i]), max_chars)

\* the sentence loop of _chunk_text_for_tts
RECURSIVE ChunkSentences(_, _, _, _, _)
ChunkSentences(sentences, i, chunks, current_chunk, max_chars) ==
    IF i > Len(sentences)
    THEN (IF current_chunk # <<>> THEN Append(chunks, current_chunk) ELSE chunks)
    ELSE LET sentence == sentences[i]
             test_chunk == JoinStrip(current_chunk, sentence)
             saved == IF current_chunk # <<>> THEN Append(chunks, current_chunk) ELSE chunks
             w == ChunkWords(SplitWords(sentence), 1, saved, <<>>, max_chars)
         IN  IF Len(test_chunk) <= max_chars
             THEN ChunkSentences(sentences, i + 1, chunks, test_chunk, max_chars)
             ELSE IF Len(sentence) > max_chars
                  THEN ChunkSentences(sentences, i + 1, w.chunks, w.word_chunk, max_chars)
                  ELSE ChunkSentences(sentences, i + 1, saved, sentence, max_chars)

ChunkTextForTts(text, max_chars) ==
    IF Len(text) <= max_chars THEN <<text>>
    ELSE ChunkSentences(SplitSentences(text, 1, <<>>, <<>>), 1, <<>>, <<>>, max_chars)

\* ----------------------------------------------------------- pause splitting
\* segments = [seg.strip() for seg in segments if seg.strip()]
KeepSegments(pieces) == StripNonEmpty(pieces)

PauseSegments(script) == KeepSegments(SplitPauseMarkers(script, 1, <<>>, <<>>))

\* ------------------------------------------------------------------- state
VARIABLES
    pc,                \* position in generate_speech, or the function applied
    text, voice, speed, format, generation_type,   \* arguments
    openai_client,     \* self.openai_client is set
    pause_enabled,     \* self.pause_enabled
    max_chars,         \* the max_chars argument of a function applied alone
    processed_text,
    segments,          \* _process_script_with_pauses: segments
    text_chunks,
    idx,               \* loop index i (1-based)
    temp_audio_files,  \* the parts collected for the concat manifest
    temp_silence_file,
    total_duration,
    temp_audio_path,
    duration,
    tmp,               \* paths that exist in tempfile.gettempdir()
    output_folder,     \* paths that exist in self.output_folder
    calls,             \* external calls made so far, in order
    result,            \* what generate_speech returned
    captions,          \* timed_sections
    video_width,       \* self.video_width of the shared VoiceoverSystem instance
    video_height,      \* self.video_height
    requests,          \* concurrent generate_speech requests: their arguments and locals
    files,             \* <<request, path>>: the paths each concurrent request has written
    lines,             \* wrap_text_for_video: the lines of a caption
    api_request,       \* app.py: the arguments of one API request and its route
    api_sessions,      \* app.py: api_sessions / api_voiceover_sessions, by session id
    worker,            \* app.py: the background thread of the API request
    webhooks,          \* app.py: the webhook POSTs attempted, in order
    processing_sessions,  \* app.py: processing_sessions, by session id
    collection,        \* rag_system: the vector collection of the PDF session
    runs               \* app.py: the pipeline threads started by /process

vars == <<pc, text, voice, speed, format, generation_type, openai_client, pause_enabled,
          max_chars, processed_text, segments, text_chunks, idx, temp_audio_files,
          temp_silence_file, total_duration, temp_audio_path, duration, tmp,
          output_folder, calls, result, captions, video_width, video_height, requests,
          files, lines, api_request, api_sessions, worker, webhooks, processing_sessions,
          collection, runs>>

instanceVars == <<video_width, video_height>>
wrapVars == <<lines>>
appVars == <<api_request, api_sessions, worker, webhooks, processing_sessions, collection,
             runs>>
concurrentVars == <<requests, files>>

\* video dimensions of the two formats
regular_video_width == 1920
regular_video_height == 1080
shorts_video_width == 1080
shorts_video_height == 1920

\* the instance as __init__ leaves it, and no concurrent request
InstanceInit ==
    /\ video_width = regular_video_width
    /\ video_height = regular_video_height
NoRequests == requests = <<>> /\ files = {}

\* no request to the web application
\* the worker before the thread is started
WorkerIdle ==
    [pc |-> "idle", i |-> 0, video_files |-> <<>>, zip |-> <<>>, invoked |-> 0,
     success |-> FALSE]

NewRequest(endpoint, webhook_url, background_image_url, script_segments) ==
    [endpoint |-> endpoint, webhook_url |-> webhook_url,
     background_image_url |-> background_image_url,
     script_segments |-> script_segments, reply |-> "none"]

\* no vector collection exists for the session
NoCollection == [exists |-> FALSE, owner |-> 0, batches |-> 0]

\* no API request was made yet
NoApiRequest == NewRequest("none", FALSE, FALSE, 0)

AppIdle ==
    /\ api_request = NoApiRequest /\ api_sessions = <<>> /\ worker = WorkerIdle
    /\ webhooks = <<>>
    /\ processing_sessions = <<>> /\ collection = NoCollection /\ runs = <<>>

NoPath == <<"none", 0>>
NoResult == [returned |-> FALSE, success |-> FALSE, error |-> ""]

\* all texts of at most n characters
AllTexts(n) == UNION {[1..k -> Alphabet] : k \in 0..n}

\* ------------------------------------------- the text functions on their own
FnDurations == {Rat(1, 1), Rat(51, 10)}
FnMaxChars == {2, 3}

requestVars == <<voice, speed, format, generation_type, openai_client, pause_enabled>>
runVars == <<idx, temp_audio_files, temp_silence_file, total_duration, temp_audio_path,
             tmp, output_folder, calls, result>>

InitText ==
    /\ pc = "fn_input"
    /\ text \in AllTexts(MaxTextLen)
    /\ duration \in FnDurations
    /\ max_chars \in FnMaxChars
    /\ voice = "onyx" /\ speed = Rat(6, 5) /\ format = "mp3"
    /\ generation_type = "regular"
    /\ openai_client = TRUE /\ pause_enabled = TRUE
    /\ processed_text = <<>> /\ segments = <<>> /\ text_chunks = <<>>
    /\ idx = 0 /\ temp_audio_files = <<>> /\ temp_silence_file = NoPath
    /\ total_duration = RZero /\ temp_audio_path = NoPath
    /\ tmp = {} /\ output_folder = {} /\ calls = <<>>
    /\ result = NoResult /\ captions = <<>>
    /\ InstanceInit /\ NoRequests
    /\ lines = <<>> /\ AppIdle

FnPreprocess ==
    /\ pc = "fn_input"
    /\ pc' = "fn_preprocessed"
    /\ processed_text' = PreprocessTextForTts(text)
    /\ UNCHANGED <<text, duration, max_chars, segments, text_chunks, captions>>
    /\ UNCHANGED requestVars /\ UNCHANGED runVars
    /\ UNCHANGED instanceVars /\ UNCHANGED concurrentVars
    /\ UNCHANGED wrapVars /\ UNCHANGED appVars

\* one run of the caption timing on the arguments of the request
RunSplitTimed_ByInstance ==
    SplitTextIntoTimedSections(text, duration,
                               IF video_width = shorts_video_width THEN 1 ELSE max_chars)

RunSplitTimed == SplitTextIntoTimedSections(text, duration, max_chars)

FnSplitTimed ==
    /\ pc = "fn_input"
    /\ pc' = "fn_timed"
    /\ captions' = RunSplitTimed
    /\ UNCHANGED <<text, duration, max_chars, processed_text, segments, text_chunks>>
    /\ UNCHANGED requestVars /\ UNCHANGED runVars
    /\ UNCHANGED instanceVars /\ UNCHANGED concurrentVars
    /\ UNCHANGED wrapVars /\ UNCHANGED appVars

\* between two runs another request assigns its dimensions to the shared instance
FnInstanceChange ==
    /\ pc = "fn_timed"
    /\ pc' = "fn_timed_changed"
    /\ video_width' = shorts_video_width
    /\ video_height' = shorts_video_height
    /\ UNCHANGED <<text, duration, max_chars, processed_text, segments, text_chunks,
                   captions>>
    /\ UNCHANGED requestVars /\ UNCHANGED runVars
    /\ UNCHANGED concurrentVars
    /\ UNCHANGED wrapVars /\ UNCHANGED appVars

\* a second run of the caption timing on the same arguments
FnSplitTimedAgain ==
    /\ pc \in {"fn_timed", "fn_timed_changed"}
    /\ pc' = "fn_timed_again"
    /\ captions' = RunSplitTimed
    /\ UNCHANGED <<text, duration, max_chars, processed_text, segments, text_chunks>>
    /\ UNCHANGED requestVars /\ UNCHANGED runVars
    /\ UNCHANGED instanceVars /\ UNCHANGED concurrentVars
    /\ UNCHANGED wrapVars /\ UNCHANGED appVars

\* wrap_text_for_video on a caption text
FnWrap ==
    /\ pc = "fn_input"
    /\ pc' = "fn_wrapped"
    /\ lines' = WrapTextForVideo(text, max_chars)
    /\ UNCHANGED <<text, duration, max_chars, processed_text, segments, text_chunks,
                   captions>>
    /\ UNCHANGED requestVars /\ UNCHANGED runVars
    /\ UNCHANGED instanceVars /\ UNCHANGED concurrentVars
    /\ UNCHANGED appVars

FnChunk ==
    /\ pc = "fn_input"
    /\ pc' = "fn_chunks"
    /\ text_chunks' = ChunkTextForTts(text, max_chars)
    /\ UNCHANGED <<text, duration, max_chars, processed_text, segments, captions>>
    /\ UNCHANGED requestVars /\ UNCHANGED runVars
    /\ UNCHANGED instanceVars /\ UNCHANGED concurrentVars
    /\ UNCHANGED wrapVars /\ UNCHANGED appVars

FnPauseSegments ==
    /\ pc = "fn_input"
    /\ pc' = "fn_segments"
    /\ segments' = PauseSegments(text)
    /\ UNCHANGED <<text, duration, max_chars, processed_text, text_chunks, captions>>
    /\ UNCHANGED requestVars /\ UNCHANGED runVars
    /\ UNCHANGED instanceVars /\ UNCHANGED concurrentVars
    /\ UNCHANGED wrapVars /\ UNCHANGED appVars

NextText ==
    \/ FnPreprocess
    \/ FnSplitTimed
    \/ FnInstanceChange
    \/ FnSplitTimedAgain
    \/ FnWrap
    \/ FnChunk
    \/ FnPauseSegments

SpecText == InitText /\ [][NextText]_vars

\* ------------------------------------------------- generate_speech: settings
available_voices == {"alloy", "echo", "fable", "onyx", "nova", "shimmer"}
supported_formats == {"mp3", "wav", "mp4"}
text_overlay_enabled == TRUE
\* character limits, scaled to the model's short texts
max_input_chars == 4
ChunkSafetyMargin == 1
ShortsSectionChars == 3
RegularSectionChars == 5
pause_silence_seconds == Rat(3, 2)
ProbeFallbackSeconds == Rat(10, 1)
RenderFallbackSeconds == Rat(30, 1)

\* the scripts a request is made with
Scripts ==
    { <<>>,
      <<" ">>,
      <<".">>,
      <<"a", ".">>,
      <<"a", ".", " ", "a", ".", " ", "a">>,
      <<"a", "P", "a", ".">>,
      <<"P", "a", ".", "P", "P", "a", "P", "a", "P">>,
      <<"a", "P", "a", "a", "a", "a", "a">>,
      <<"a", "a", "P">>,
      <<"a", "%">> }
Voices == {"onyx", "robot"}
Speeds == {Rat(1, 5), Rat(1, 4), Rat(4, 1), Rat(9, 2)}
Formats == {"mp3", "wav", "mp4", "ogg"}
GenerationTypes == {"regular", "youtube_shorts"}

\* outcomes of the external calls
TtsOutcomes == {"ok", "empty", "error"}
ProbeOutcomes ==
    { [ok |-> TRUE, seconds |-> Rat(2, 1)],
      [ok |-> TRUE, seconds |-> Rat(5, 2)],
      [ok |-> FALSE, seconds |-> RZero] }
SilenceOutcomes == {"ok", "fail", "fail_partial", "raise"}
ConcatOutcomes == {"ok", "ok_empty", "fail", "fail_partial", "raise"}
RenderOutcomes == {"ok", "ok_missing", "fail", "fail_partial", "raise"}
MoveOutcomes == {"ok", "raise"}

\* paths in the temporary directory and in the output folder
SinglePath == <<"single", 0>>
ChunkPath(i) == <<"chunk", i>>
SegmentPath(i) == <<"segment", i>>
SilencePath == <<"silence", 0>>
CombinedPath == <<"combined", 0>>
ConcatListPath == <<"concat", 0>>
WithPausesPath == <<"with_pauses", 0>>
PauseConcatListPath == <<"pause_concat", 0>>
FinalPath == <<"final", 0>>

Call(op, path, txt, ok) == [op |-> op, path |-> path, text |-> txt, ok |-> ok]
Failure(msg) == [returned |-> TRUE, success |-> FALSE, error |-> msg]
Success == [returned |-> TRUE, success |-> TRUE, error |-> ""]

\* _get_audio_duration: the probed duration, or 10.0 when the probe fails
GetAudioDuration_NoFallback(probe) == probe.seconds

GetAudioDuration(probe) == IF probe.ok THEN probe.seconds ELSE ProbeFallbackSeconds

PartPaths(parts) == {parts[k].path : k \in 1..Len(parts)}

\* 0.25 <= speed <= 4.0
SpeedInRange_NoLowerBound(s) == RLe(s, Rat(4, 1))

SpeedInRange(s) == RLe(Rat(1, 4), s) /\ RLe(s, Rat(4, 1))

\* the checks at the head of generate_speech, in order; "" when all pass
ValidationError ==
    IF ~openai_client THEN "OpenAI API key not configured"
    ELSE IF text = <<>> \/ Strip(text) = <<>> THEN "Text is required"
    ELSE IF voice \notin available_voices THEN "Invalid voice"
    ELSE IF ~SpeedInRange(speed) THEN "Speed must be between 0.25 and 4.0"
    ELSE IF format \notin supported_formats THEN "Unsupported format"
    ELSE ""

\* the video dimensions of a generation type, assigned to the instance
VideoWidth(gen) ==
    IF gen \in {"shorts", "youtube_shorts"} THEN shorts_video_width ELSE regular_video_width
VideoHeight(gen) ==
    IF gen \in {"shorts", "youtube_shorts"} THEN shorts_video_height ELSE regular_video_height
SetVideoDimensions(gen) ==
    /\ video_width' = VideoWidth(gen)
    /\ video_height' = VideoHeight(gen)

textVars == <<text, voice, speed, format, generation_type, openai_client, pause_enabled,
              max_chars>>

Init ==
    /\ pc = "start"
    /\ text \in Scripts
    /\ voice \in Voices
    /\ speed \in Speeds
    /\ format \in Formats
    /\ generation_type \in GenerationTypes
    /\ openai_client \in BOOLEAN
    /\ pause_enabled \in BOOLEAN
    /\ max_chars = 0 /\ duration = RZero
    /\ processed_text = <<>> /\ segments = <<>> /\ text_chunks = <<>>
    /\ idx = 0 /\ temp_audio_files = <<>> /\ temp_silence_file = NoPath
    /\ total_duration = RZero /\ temp_audio_path = NoPath
    /\ tmp = {} /\ output_folder = {} /\ calls = <<>>
    /\ result = NoResult /\ captions = <<>>
    /\ InstanceInit /\ NoRequests
    /\ lines = <<>> /\ AppIdle

\* generate_speech up to the choice between pause processing and chunking
GenerateSpeechStart ==
    /\ pc = "start"
    /\ IF ValidationError # ""
       THEN /\ result' = Failure(ValidationError)
            /\ pc' = "done"
            /\ UNCHANGED processed_text
       ELSE /\ processed_text' = PreprocessTextForTts(text)
            /\ pc' = IF generation_type \in {"regular", "standalone"} /\ pause_enabled
                     THEN "pauses" ELSE "chunking"
            /\ UNCHANGED result
    /\ UNCHANGED <<segments, text_chunks, idx, temp_audio_files, temp_silence_file,
                   total_duration, temp_audio_path, duration, tmp, output_folder, calls,
                   captions>>
    /\ UNCHANGED textVars
    /\ UNCHANGED instanceVars /\ UNCHANGED concurrentVars
    /\ UNCHANGED wrapVars /\ UNCHANGED appVars

\* _process_script_with_pauses up to its segment loop: the split and the silence clip
ProcessScriptWithPauses ==
    /\ pc = "pauses"
    /\ segments' = PauseSegments(processed_text)
    /\ IF Len(segments') <= 1
       THEN /\ pc' = "chunking"
            /\ UNCHANGED <<temp_silence_file, tmp, calls, result, idx>>
       ELSE \E o \in SilenceOutcomes :
            /\ calls' = Append(calls, Call("silence", SilencePath, <<>>, o = "ok"))
            /\ temp_silence_file' = IF o = "ok" THEN SilencePath ELSE NoPath
            /\ tmp' = IF o \in {"ok", "fail_partial"} THEN tmp \cup {SilencePath} ELSE tmp
            /\ idx' = 1
            /\ IF o = "raise"
               THEN /\ result' = Failure("Error processing script with pauses")
                    /\ pc' = "done"
               ELSE /\ pc' = "segment"
                    /\ UNCHANGED result
    /\ UNCHANGED <<processed_text, text_chunks, temp_audio_files, total_duration,
                   temp_audio_path, duration, output_folder, captions>>
    /\ UNCHANGED textVars
    /\ UNCHANGED instanceVars /\ UNCHANGED concurrentVars
    /\ UNCHANGED wrapVars /\ UNCHANGED appVars

\* the pause after a segment: not after the last one, and only with a silence clip
PauseFollows_AfterEvery(i, n) == temp_silence_file # NoPath /\ temp_silence_file \in tmp

PauseFollows(i, n) == i < n /\ temp_silence_file # NoPath /\ temp_silence_file \in tmp

\* one iteration of the segment loop whose TTS call, or the writing of its
\* audio, fails: the parts made so far are removed and the request fails
SegmentFailed_Skipped(o) ==
    /\ o \in {"empty", "error"}
    /\ calls' = Append(calls, Call("tts", SegmentPath(idx), segments[idx], FALSE))
    /\ tmp' = IF o = "empty" THEN tmp \cup {SegmentPath(idx)} ELSE tmp
    /\ idx' = idx + 1
    /\ pc' = IF idx = Len(segments) THEN "pause_concat" ELSE "segment"
    /\ UNCHANGED <<result, temp_audio_files, total_duration>>

SegmentFailed(o) ==
    /\ o \in {"empty", "error"}
    /\ calls' = Append(calls, Call("tts", SegmentPath(idx), segments[idx], FALSE))
    /\ tmp' = ((IF o = "empty" THEN tmp \cup {SegmentPath(idx)} ELSE tmp)
                  \ PartPaths(temp_audio_files)) \ {temp_silence_file}
    /\ result' = Failure("Failed to generate segment")
    /\ pc' = "done"
    /\ UNCHANGED <<idx, temp_audio_files, total_duration>>

\* temp_audio_files.append(path)
AppendPart_Front(manifest, part) == <<part>> \o manifest

AppendPart(manifest, part) == Append(manifest, part)

\* total_duration += self.pause_silence_seconds
AddPause_Omitted(total) == total

AddPause(total) == RAdd(total, pause_silence_seconds)

\* one iteration of the segment loop that succeeds
SegmentSynthesized(probe) ==
    LET segment_duration == GetAudioDuration(probe)
        speech == [kind |-> "speech", path |-> SegmentPath(idx), text |-> segments[idx],
                   seconds |-> segment_duration]
        silence == [kind |-> "silence", path |-> temp_silence_file, text |-> <<>>,
                    seconds |-> pause_silence_seconds]
    IN  /\ calls' = calls \o <<Call("tts", SegmentPath(idx), segments[idx], TRUE),
                               Call("probe", SegmentPath(idx), <<>>, probe.ok)>>
        /\ tmp' = tmp \cup {SegmentPath(idx)}
        /\ IF PauseFollows(idx, Len(segments))
           THEN /\ temp_audio_files' =
                       AppendPart(AppendPart(temp_audio_files, speech), silence)
                /\ total_duration' = AddPause(RAdd(total_duration, segment_duration))
           ELSE /\ temp_audio_files' = AppendPart(temp_audio_files, speech)
                /\ total_duration' = RAdd(total_duration, segment_duration)
        /\ idx' = idx + 1
        /\ pc' = IF idx = Len(segments) THEN "pause_concat" ELSE "segment"
        /\ UNCHANGED result

SynthesizeSegment ==
    /\ pc = "segment"
    /\ \/ \E o \in TtsOutcomes : SegmentFailed(o)
       \/ \E probe \in ProbeOutcomes : SegmentSynthesized(probe)
    /\ UNCHANGED <<processed_text, segments, text_chunks, temp_silence_file,
                   temp_audio_path, duration, output_folder, captions>>
    /\ UNCHANGED textVars
    /\ UNCHANGED instanceVars /\ UNCHANGED concurrentVars
    /\ UNCHANGED wrapVars /\ UNCHANGED appVars

\* the concatenation of a manifest into `combined`, with the cleanup around it
ConcatParts(o, manifest, combined, failure, raised) ==
    LET cleaned == ((tmp \ PartPaths(temp_audio_files)) \ {temp_silence_file}) \ {manifest}
    IN  /\ calls' = Append(calls, Call("concat", combined, <<>>, o = "ok"))
        /\ tmp' = IF o \in {"ok", "ok_empty", "fail_partial"}
                  THEN cleaned \cup {combined} ELSE cleaned
        /\ IF o = "ok"
           THEN /\ temp_audio_path' = combined
                /\ duration' = total_duration
                /\ pc' = "output"
                /\ UNCHANGED result
           ELSE /\ result' = Failure(IF o = "ok_empty"
                                      THEN "Combined audio file was not created properly"
                                      ELSE IF o = "raise" THEN raised ELSE failure)
                /\ pc' = "done"
                /\ UNCHANGED <<temp_audio_path, duration>>

\* _process_script_with_pauses after its loop, and the return to generate_speech
ConcatWithPauses ==
    /\ pc = "pause_concat"
    /\ \E o \in ConcatOutcomes :
           ConcatParts(o, PauseConcatListPath, WithPausesPath,
                       "FFmpeg error combining audio with pauses",
                       "Error processing script with pauses")
    /\ UNCHANGED <<processed_text, segments, text_chunks, idx, temp_audio_files,
                   temp_silence_file, total_duration, output_folder, captions>>
    /\ UNCHANGED textVars
    /\ UNCHANGED instanceVars /\ UNCHANGED concurrentVars
    /\ UNCHANGED wrapVars /\ UNCHANGED appVars

\* generate_speech: the chunking of the processed text
ChunkText ==
    /\ pc = "chunking"
    /\ text_chunks' = IF Len(processed_text) > max_input_chars
                      THEN ChunkTextForTts(processed_text,
                                           max_input_chars - ChunkSafetyMargin)
                      ELSE <<processed_text>>
    /\ pc' = IF Len(text_chunks') = 1 THEN "single" ELSE "chunks"
    /\ idx' = 1
    /\ UNCHANGED <<processed_text, segments, temp_audio_files, temp_silence_file,
                   total_duration, temp_audio_path, duration, tmp, output_folder, calls,
                   result, captions>>
    /\ SetVideoDimensions(generation_type)
    /\ UNCHANGED textVars /\ UNCHANGED concurrentVars
    /\ UNCHANGED wrapVars /\ UNCHANGED appVars

\* generate_speech: the single TTS call
SynthesizeSingle ==
    /\ pc = "single"
    /\ \/ \E o \in {"empty", "error"} :
            /\ calls' = Append(calls, Call("tts", SinglePath, text_chunks[1], FALSE))
            /\ tmp' = IF o = "empty" THEN tmp \cup {SinglePath} ELSE tmp
            /\ result' = Failure("OpenAI TTS API error")
            /\ pc' = "done"
            /\ temp_audio_path' = SinglePath
            /\ UNCHANGED duration
       \/ \E probe \in ProbeOutcomes :
            /\ calls' = calls \o <<Call("tts", SinglePath, text_chunks[1], TRUE),
                                   Call("probe", SinglePath, <<>>, probe.ok)>>
            /\ tmp' = tmp \cup {SinglePath}
            /\ temp_audio_path' = SinglePath
            /\ duration' = GetAudioDuration(probe)
            /\ pc' = "output"
            /\ UNCHANGED result
    /\ UNCHANGED <<processed_text, segments, text_chunks, idx, temp_audio_files,
                   temp_silence_file, total_duration, output_folder, captions>>
    /\ UNCHANGED textVars
    /\ UNCHANGED instanceVars /\ UNCHANGED concurrentVars
    /\ UNCHANGED wrapVars /\ UNCHANGED appVars

\* one iteration of the chunk loop of _generate_multiple_audio_chunks that fails
ChunkFailed(o) ==
    /\ o \in {"empty", "error"}
    /\ calls' = Append(calls, Call("tts", ChunkPath(idx), text_chunks[idx], FALSE))
    /\ tmp' = (IF o = "empty" THEN tmp \cup {ChunkPath(idx)} ELSE tmp)
                  \ PartPaths(temp_audio_files)
    /\ result' = Failure("Failed to generate audio chunk")
    /\ pc' = "done"
    /\ UNCHANGED <<idx, temp_audio_files, total_duration>>

\* one iteration of the chunk loop that succeeds
ChunkSynthesized(probe) ==
    LET chunk_duration == GetAudioDuration(probe)
    IN  /\ calls' = calls \o <<Call("tts", ChunkPath(idx), text_chunks[idx], TRUE),
                               Call("probe", ChunkPath(idx), <<>>, probe.ok)>>
        /\ tmp' = tmp \cup {ChunkPath(idx)}
        /\ temp_audio_files' =
               AppendPart(temp_audio_files,
                          [kind |-> "speech", path |-> ChunkPath(idx),
                           text |-> text_chunks[idx], seconds |-> chunk_duration])
        /\ total_duration' = RAdd(total_duration, chunk_duration)
        /\ idx' = idx + 1
        /\ pc' = IF idx = Len(text_chunks) THEN "chunk_concat" ELSE "chunks"
        /\ UNCHANGED result

SynthesizeChunk ==
    /\ pc = "chunks"
    /\ \/ \E o \in TtsOutcomes : ChunkFailed(o)
       \/ \E probe \in ProbeOutcomes : ChunkSynthesized(probe)
    /\ UNCHANGED <<processed_text, segments, text_chunks, temp_silence_file,
                   temp_audio_path, duration, output_folder, captions>>
    /\ UNCHANGED textVars
    /\ UNCHANGED instanceVars /\ UNCHANGED concurrentVars
    /\ UNCHANGED wrapVars /\ UNCHANGED appVars

\* _generate_multiple_audio_chunks after its loop, and the return to generate_speech
ConcatChunks ==
    /\ pc = "chunk_concat"
    /\ \E o \in ConcatOutcomes :
           ConcatParts(o, ConcatListPath, CombinedPath, "FFmpeg error combining audio",
                       "Error in audio chunk generation")
    /\ UNCHANGED <<processed_text, segments, text_chunks, idx, temp_audio_files,
                   temp_silence_file, total_duration, output_folder, captions>>
    /\ UNCHANGED textVars
    /\ UNCHANGED instanceVars /\ UNCHANGED concurrentVars
    /\ UNCHANGED wrapVars /\ UNCHANGED appVars

\* max_chars_per_section of _create_video_with_audio
SectionChars(gen) ==
    IF gen \in {"shorts", "youtube_shorts"} THEN ShortsSectionChars ELSE RegularSectionChars

\* duration or 30
DurationOrDefault_Fixed(d) == RenderFallbackSeconds

DurationOrDefault(d) == IF d.n = 0 THEN RenderFallbackSeconds ELSE d

\* the verification of the final file: not os.path.exists(final_path)
OutputMissing_Unchecked(out) == FALSE

OutputMissing(out) == FinalPath \notin out

\* the result after an external command that wrote the final file returned 0
FinalResult(out) ==
    IF OutputMissing(out) THEN Failure("Final output file was not created") ELSE Success

\* generate_speech with format mp4: _create_video_with_audio and the final steps
CreateVideo ==
    /\ pc = "output"
    /\ format = "mp4"
    /\ captions' = IF text_overlay_enabled /\ processed_text # <<>>
                   THEN SplitTextIntoTimedSections(processed_text,
                                                   DurationOrDefault(duration),
                                                   SectionChars(generation_type))
                   ELSE <<>>
    /\ \E o \in RenderOutcomes :
        /\ calls' = Append(calls, Call("render", FinalPath, <<>>,
                                      o \in {"ok", "ok_missing"}))
        /\ output_folder' = IF o \in {"ok", "fail_partial"}
                            THEN output_folder \cup {FinalPath} ELSE output_folder
        /\ tmp' = tmp \ {temp_audio_path}
        /\ result' = IF o \in {"ok", "ok_missing"} THEN FinalResult(output_folder')
                     ELSE Failure("Failed to create video - FFmpeg error")
    /\ pc' = "done"
    /\ UNCHANGED <<processed_text, segments, text_chunks, idx, temp_audio_files,
                   temp_silence_file, total_duration, temp_audio_path, duration>>
    /\ SetVideoDimensions(generation_type)
    /\ UNCHANGED textVars /\ UNCHANGED concurrentVars
    /\ UNCHANGED wrapVars /\ UNCHANGED appVars

\* generate_speech with format wav: the conversion and the final steps
ConvertToWav ==
    /\ pc = "output"
    /\ format = "wav"
    /\ \E o \in RenderOutcomes :
        /\ calls' = Append(calls, Call("wav", FinalPath, <<>>,
                                      o \in {"ok", "ok_missing"}))
        /\ output_folder' = IF o \in {"ok", "fail_partial"}
                            THEN output_folder \cup {FinalPath} ELSE output_folder
        /\ tmp' = tmp \ {temp_audio_path}
        /\ result' = IF o \in {"ok", "ok_missing"} THEN FinalResult(output_folder')
                     ELSE IF o = "raise" THEN Failure("WAV conversion failed")
                     ELSE Failure("Failed to convert to WAV format")
    /\ pc' = "done"
    /\ UNCHANGED <<processed_text, segments, text_chunks, idx, temp_audio_files,
                   temp_silence_file, total_duration, temp_audio_path, duration, captions>>
    /\ SetVideoDimensions(generation_type)
    /\ UNCHANGED textVars /\ UNCHANGED concurrentVars
    /\ UNCHANGED wrapVars /\ UNCHANGED appVars

\* generate_speech with format mp3: the move and the final steps
MoveMp3 ==
    /\ pc = "output"
    /\ format = "mp3"
    /\ \E o \in MoveOutcomes :
        /\ calls' = Append(calls, Call("move", FinalPath, <<>>, o = "ok"))
        /\ IF o = "ok"
           THEN /\ output_folder' = output_folder \cup {FinalPath}
                /\ tmp' = tmp \ {temp_audio_path}
                /\ result' = Success
           ELSE /\ result' = Failure("Failed to move MP3 file")
                /\ UNCHANGED <<output_folder, tmp>>
    /\ pc' = "done"
    /\ UNCHANGED <<processed_text, segments, text_chunks, idx, temp_audio_files,
                   temp_silence_file, total_duration, temp_audio_path, duration, captions>>
    /\ SetVideoDimensions(generation_type)
    /\ UNCHANGED textVars /\ UNCHANGED concurrentVars
    /\ UNCHANGED wrapVars /\ UNCHANGED appVars

Next ==
    \/ GenerateSpeechStart
    \/ ProcessScriptWithPauses
    \/ SynthesizeSegment
    \/ ConcatWithPauses
    \/ ChunkText
    \/ SynthesizeSingle
    \/ SynthesizeChunk
    \/ ConcatChunks
    \/ CreateVideo
    \/ ConvertToWav
    \/ MoveMp3

Spec == Init /\ [][Next]_vars

\* ------------------------- concurrent requests on the shared instance
\* app.py starts one thread per request; every thread calls generate_speech
\* of the one module-level VoiceoverSystem.  Each request is followed through
\* the statements of generate_speech (single chunk, format mp4) that name a
\* file or touch self.video_width / self.video_height.
Requests == {1, 2}
CustomFilenames == {"", "c1", "c2"}      \* "" stands for None
SessionIds == {"", "s1", "s2"}
FirstLines == {"", "t1"}                 \* what _generate_filename_from_text returns
text_overlay_fontsize_px == 50
text_overlay_side_margin_px == 20
MinLineChars == 15
ShortsLineChars == 22
RegularLineChars == 35

pipelineVars == <<pc, text, voice, speed, format, generation_type, openai_client,
                  pause_enabled, max_chars, processed_text, segments, text_chunks, idx,
                  temp_audio_files, temp_silence_file, total_duration, temp_audio_path,
                  duration, tmp, output_folder, calls, result, captions>>

\* no single request is followed while the concurrent ones run
PipelineIdle ==
    /\ pc = "idle"
    /\ text = <<>> /\ voice = "onyx" /\ speed = Rat(6, 5) /\ format = "mp4"
    /\ generation_type = "regular"
    /\ openai_client = TRUE /\ pause_enabled = FALSE
    /\ max_chars = 0 /\ duration = RZero
    /\ processed_text = <<>> /\ segments = <<>> /\ text_chunks = <<>>
    /\ idx = 0 /\ temp_audio_files = <<>> /\ temp_silence_file = NoPath
    /\ total_duration = RZero /\ temp_audio_path = NoPath
    /\ tmp = {} /\ output_folder = {} /\ calls = <<>>
    /\ result = NoResult /\ captions = <<>>

\* str(uuid.uuid4())[:8], taken to differ between requests
Uuid8(r) == IF r = 1 THEN "u1" ELSE "u2"

\* filename_base: custom filename, else session id, else text excerpt, else uuid
FilenameBase(r, custom_filename, session_id, first_line) ==
    IF custom_filename # "" THEN <<"", custom_filename>>
    ELSE IF session_id # "" THEN <<"voiceover_", session_id>>
    ELSE IF first_line # "" THEN <<"voiceover_", first_line>>
    ELSE <<"voiceover_", Uuid8(r)>>

\* os.path.join(tempfile.gettempdir(), f"{filename_base}.mp3")
TempAudioFile(base) == <<"tmp", base, ".mp3">>
\* os.path.join(self.output_folder, f"{filename_base}.mp4")
FinalFile(base) == <<"out", base, ".mp4">>

Max(a, b) == IF a >= b THEN a ELSE b
Min(a, b) == IF a <= b THEN a ELSE b

\* max_chars of _build_timed_drawtext_chain for a video width
LineChars(width) ==
    LET available_width == width - 2 * text_overlay_side_margin_px
        fit == Max(MinLineChars, (2 * available_width) \div text_overlay_fontsize_px)
    IN  IF width <= 1080 THEN Min(fit, ShortsLineChars) ELSE Min(fit, RegularLineChars)

InitConcurrent ==
    /\ PipelineIdle
    /\ InstanceInit
    /\ requests \in [Requests ->
           [pc : {"c_start"},
            generation_type : GenerationTypes,
            custom_filename : CustomFilenames,
            session_id : SessionIds,
            first_line : FirstLines,
            filename_base : {<<>>},
            frame : {<<0, 0>>},
            line_chars : {0}]]
    /\ files = {}
    /\ lines = <<>> /\ AppIdle

AtPc(r, at) == requests[r].pc = at
Goto(r, to) == [requests EXCEPT ![r].pc = to]

\* generate_speech: the choice of filename_base
ChooseFilename(r) ==
    /\ AtPc(r, "c_start")
    /\ requests' = [requests EXCEPT
           ![r].pc = "c_width1",
           ![r].filename_base = FilenameBase(r, requests[r].custom_filename,
                                             requests[r].session_id,
                                             requests[r].first_line)]
    /\ UNCHANGED <<files, video_width, video_height>>
    /\ UNCHANGED pipelineVars
    /\ UNCHANGED wrapVars /\ UNCHANGED appVars

\* self.video_width = ... : before the TTS call, and again before the output
SetWidth(r) ==
    /\ AtPc(r, "c_width1") \/ AtPc(r, "c_width2")
    /\ video_width' = VideoWidth(requests[r].generation_type)
    /\ requests' = Goto(r, IF AtPc(r, "c_width1") THEN "c_height1" ELSE "c_height2")
    /\ UNCHANGED <<files, video_height>>
    /\ UNCHANGED pipelineVars
    /\ UNCHANGED wrapVars /\ UNCHANGED appVars

\* self.video_height = ...
SetHeight(r) ==
    /\ AtPc(r, "c_height1") \/ AtPc(r, "c_height2")
    /\ video_height' = VideoHeight(requests[r].generation_type)
    /\ requests' = Goto(r, IF AtPc(r, "c_height1") THEN "c_tts" ELSE "c_frame")
    /\ UNCHANGED <<files, video_width>>
    /\ UNCHANGED pipelineVars
    /\ UNCHANGED wrapVars /\ UNCHANGED appVars

\* the TTS response written to the temporary audio file
WriteTempAudio(r) ==
    /\ AtPc(r, "c_tts")
    /\ files' = files \cup {<<r, TempAudioFile(requests[r].filename_base)>>}
    /\ requests' = Goto(r, "c_width2")
    /\ UNCHANGED <<video_width, video_height>>
    /\ UNCHANGED pipelineVars
    /\ UNCHANGED wrapVars /\ UNCHANGED appVars

\* _create_video_with_audio: the frame size put into the ffmpeg command
ReadFrame(r) ==
    /\ AtPc(r, "c_frame")
    /\ requests' = [requests EXCEPT ![r].pc = "c_drawtext",
                                    ![r].frame = <<video_width, video_height>>]
    /\ UNCHANGED <<files, video_width, video_height>>
    /\ UNCHANGED pipelineVars
    /\ UNCHANGED wrapVars /\ UNCHANGED appVars

\* _build_timed_drawtext_chain: the line budget of the captions
BuildDrawtext(r) ==
    /\ AtPc(r, "c_drawtext")
    /\ requests' = [requests EXCEPT ![r].pc = "c_ffmpeg",
                                    ![r].line_chars = LineChars(video_width)]
    /\ UNCHANGED <<files, video_width, video_height>>
    /\ UNCHANGED pipelineVars
    /\ UNCHANGED wrapVars /\ UNCHANGED appVars

\* ffmpeg writes the final file
RunFfmpeg(r) ==
    /\ AtPc(r, "c_ffmpeg")
    /\ files' = files \cup {<<r, FinalFile(requests[r].filename_base)>>}
    /\ requests' = Goto(r, "c_done")
    /\ UNCHANGED <<video_width, video_height>>
    /\ UNCHANGED pipelineVars
    /\ UNCHANGED wrapVars /\ UNCHANGED appVars

NextConcurrent ==
    \/ \E r \in Requests : ChooseFilename(r)
    \/ \E r \in Requests : SetWidth(r)
    \/ \E r \in Requests : SetHeight(r)
    \/ \E r \in Requests : WriteTempAudio(r)
    \/ \E r \in Requests : ReadFrame(r)
    \/ \E r \in Requests : BuildDrawtext(r)
    \/ \E r \in Requests : RunFfmpeg(r)

SpecConcurrent == InitConcurrent /\ [][NextConcurrent]_vars

\* ------------------------------------------------------------------
\* The API sessions of app.py: one accepted request, the session entry of its
\* endpoint (api_sessions for Shorts, api_voiceover_sessions for Voiceover),
\* its worker thread and the status endpoint.

MaxSegments == 3

\* the session id the route generates (uuid4)
ApiSessionId == "api_session"

\* what generate_speech does for the worker: a success result, a failure
\* result, or an exception
GenerateOutcomes == {"success", "failure", "raise"}

apiFrame == <<pipelineVars, instanceVars, concurrentVars, wrapVars,
              processing_sessions, collection, runs>>

InitApi ==
    /\ PipelineIdle
    /\ InstanceInit
    /\ NoRequests
    /\ lines = <<>> /\ AppIdle

\* session_id in api_sessions
Registered == ApiSessionId \in DOMAIN api_sessions

\* the entry a route stores before it starts the worker
QueuedSession == [status |-> "queued", progress |-> 0, result |-> FALSE]

\* the update of a finished run
CompletedSession_NoResult(session) ==
    [session EXCEPT !.status = "completed", !.progress = 100]

CompletedSession(session) ==
    [session EXCEPT !.status = "completed", !.progress = 100, !.result = TRUE]

\* the update of a failed run
FailedSession(session) == [session EXCEPT !.status = "failed", !.progress = 0]

\* segment_progress = 40 + int((i / len(script_segments)) * 40)
SegmentProgress_Countdown(i, n) == 80 - ((i * 40) \div n)

SegmentProgress(i, n) == 40 + ((i * 40) \div n)

\* POST /api/v1/generate-shorts and /api/v1/shorts/generate
ApiGenerateShorts ==
    /\ api_request = NoApiRequest
    /\ \E w \in BOOLEAN : \E b \in BOOLEAN : \E n \in 1..MaxSegments :
           api_request' = NewRequest("shorts", w, b, n)
    /\ api_sessions' = [s \in {ApiSessionId} |-> QueuedSession]
    /\ worker' = [WorkerIdle EXCEPT !.pc = "start"]
    /\ UNCHANGED webhooks
    /\ UNCHANGED apiFrame

\* POST /api/v1/voiceover/generate
ApiGenerateVoiceover ==
    /\ api_request = NoApiRequest
    /\ \E w \in BOOLEAN : \E b \in BOOLEAN :
           api_request' = NewRequest("voiceover_generate", w, b, 1)
    /\ api_sessions' = [s \in {ApiSessionId} |-> QueuedSession]
    /\ worker' = [WorkerIdle EXCEPT !.pc = "start"]
    /\ UNCHANGED webhooks
    /\ UNCHANGED apiFrame

\* POST /api/v1/voiceover: the thread is started, no session entry is stored
ApiVoiceover ==
    /\ api_request = NoApiRequest
    /\ \E w \in BOOLEAN : \E b \in BOOLEAN :
           api_request' = NewRequest("voiceover", w, b, 1)
    /\ worker' = [WorkerIdle EXCEPT !.pc = "start"]
    /\ UNCHANGED <<api_sessions, webhooks>>
    /\ UNCHANGED apiFrame

\* GET .../status/<session_id>: 404 for an unknown session, else its status
StatusReply == IF Registered THEN api_sessions[ApiSessionId].status ELSE "not_found"

ApiStatus ==
    /\ api_request # NoApiRequest
    /\ api_request' = [api_request EXCEPT !.reply = StatusReply]
    /\ UNCHANGED <<api_sessions, worker, webhooks>>
    /\ UNCHANGED apiFrame

\* the worker's first update, made only when the session is known
WorkerStart ==
    /\ worker.pc = "start"
    /\ api_sessions' = IF Registered
                       THEN [api_sessions EXCEPT ![ApiSessionId].status = "processing",
                                                 ![ApiSessionId].progress = 10]
                       ELSE api_sessions
    /\ worker' = [worker EXCEPT !.pc = "background"]
    /\ UNCHANGED <<api_request, webhooks>>
    /\ UNCHANGED apiFrame

\* the download of the background image: its update, and any error of it,
\* stay inside the try block of the download
WorkerBackground ==
    /\ worker.pc = "background"
    /\ \E downloaded \in BOOLEAN :
           api_sessions' = IF api_request.background_image_url /\ downloaded /\ Registered
                           THEN [api_sessions EXCEPT ![ApiSessionId].progress = 25]
                           ELSE api_sessions
    /\ worker' = [worker EXCEPT
                     !.pc = IF api_request.endpoint = "shorts" THEN "split" ELSE "prepare"]
    /\ UNCHANGED <<api_request, webhooks>>
    /\ UNCHANGED apiFrame

\* api_sessions[session_id].update({'progress': p}) outside any inner try: a
\* KeyError for an unknown session goes to the handler of the worker
SetProgress(p, next) ==
    /\ api_sessions' = IF Registered
                       THEN [api_sessions EXCEPT ![ApiSessionId].progress = p]
                       ELSE api_sessions
    /\ worker' = IF Registered THEN next ELSE [worker EXCEPT !.pc = "except"]

ShortsSplit ==
    /\ worker.pc = "split"
    /\ SetProgress(30, [worker EXCEPT !.pc = "begin"])
    /\ UNCHANGED <<api_request, webhooks>>
    /\ UNCHANGED apiFrame

ShortsBegin ==
    /\ worker.pc = "begin"
    /\ SetProgress(40, [worker EXCEPT !.pc = "segment", !.i = 0, !.video_files = <<>>])
    /\ UNCHANGED <<api_request, webhooks>>
    /\ UNCHANGED apiFrame

\* one iteration of the segment loop: an error of the iteration skips the segment
ShortsSegment ==
    /\ worker.pc = "segment"
    /\ worker.i < api_request.script_segments
    /\ \E o \in GenerateOutcomes :
        LET n == api_request.script_segments
            last == worker.i + 1 = n
        IN  /\ api_sessions' =
                   IF Registered
                   THEN [api_sessions EXCEPT
                            ![ApiSessionId].progress = SegmentProgress(worker.i, n)]
                   ELSE api_sessions
            /\ worker' = [worker EXCEPT
                   !.i = @ + 1,
                   !.invoked = IF Registered THEN @ + 1 ELSE @,
                   !.video_files = IF Registered /\ o = "success"
                                   THEN Append(@, worker.i + 1) ELSE @,
                   !.pc = IF last THEN "package" ELSE "segment"]
    /\ UNCHANGED <<api_request, webhooks>>
    /\ UNCHANGED apiFrame

\* if not video_files: raise; else the update before the ZIP is built
ShortsPackage ==
    /\ worker.pc = "package"
    /\ IF worker.video_files = <<>>
       THEN /\ worker' = [worker EXCEPT !.pc = "except"]
            /\ UNCHANGED api_sessions
       ELSE SetProgress(85, [worker EXCEPT !.pc = "zip"])
    /\ UNCHANGED <<api_request, webhooks>>
    /\ UNCHANGED apiFrame

\* the ZIP loop: the k-th generated video is stored under the name made from
\* script_segments[k - 1], the k-th segment of the script
ZipEntries(video_files) ==
    [k \in 1..Len(video_files) |-> [video |-> video_files[k], name |-> k]]

ShortsZip ==
    /\ worker.pc = "zip"
    /\ \E written \in BOOLEAN :
           worker' = IF written
                     THEN [worker EXCEPT !.pc = "complete",
                                         !.zip = ZipEntries(worker.video_files)]
                     ELSE [worker EXCEPT !.pc = "except"]
    /\ UNCHANGED <<api_request, api_sessions, webhooks>>
    /\ UNCHANGED apiFrame

\* requests.post(webhook_url, ...) inside its own try block, when a
\* webhook_url was given: the status sent, and the status the session has then
PostWebhook(status, sessions) ==
    IF api_request.webhook_url
    THEN Append(webhooks,
                [status |-> status,
                 session |-> IF ApiSessionId \in DOMAIN sessions
                             THEN sessions[ApiSessionId].status ELSE "not_found"])
    ELSE webhooks

ShortsComplete ==
    /\ worker.pc = "complete"
    /\ IF Registered
       THEN /\ api_sessions' = [api_sessions EXCEPT
                                   ![ApiSessionId] = CompletedSession(@)]
            /\ webhooks' = PostWebhook("completed", api_sessions')
            /\ worker' = [worker EXCEPT !.pc = "done"]
       ELSE /\ worker' = [worker EXCEPT !.pc = "except"]
            /\ UNCHANGED <<api_sessions, webhooks>>
    /\ UNCHANGED api_request
    /\ UNCHANGED apiFrame

\* the update before generate_speech, made without asking for the session
VoiceoverPrepare ==
    /\ worker.pc = "prepare"
    /\ SetProgress(40, [worker EXCEPT !.pc = "generate"])
    /\ UNCHANGED <<api_request, webhooks>>
    /\ UNCHANGED apiFrame

\* generate_speech for the whole script and the update after it
VoiceoverGenerate ==
    /\ worker.pc = "generate"
    /\ \E o \in GenerateOutcomes :
        IF o = "raise"
        THEN /\ worker' = [worker EXCEPT !.pc = "except", !.invoked = @ + 1]
             /\ UNCHANGED api_sessions
        ELSE SetProgress(80, [worker EXCEPT !.pc = "finish", !.invoked = @ + 1,
                                            !.success = (o = "success")])
    /\ UNCHANGED <<api_request, webhooks>>
    /\ UNCHANGED apiFrame

\* if result['success']: completed, else failed; then the webhook
VoiceoverFinish ==
    /\ worker.pc = "finish"
    /\ IF Registered
       THEN /\ api_sessions' = [api_sessions EXCEPT
                                   ![ApiSessionId] = IF worker.success
                                                     THEN CompletedSession(@)
                                                     ELSE FailedSession(@)]
            /\ webhooks' = PostWebhook(IF worker.success THEN "completed" ELSE "failed",
                                       api_sessions')
            /\ worker' = [worker EXCEPT !.pc = "done"]
       ELSE /\ worker' = [worker EXCEPT !.pc = "except"]
            /\ UNCHANGED <<api_sessions, webhooks>>
    /\ UNCHANGED api_request
    /\ UNCHANGED apiFrame

\* except Exception of the worker: the failed update, made only when the
\* session is known, then the webhook
WorkerExcept ==
    /\ worker.pc = "except"
    /\ api_sessions' = IF Registered
                       THEN [api_sessions EXCEPT ![ApiSessionId] = FailedSession(@)]
                       ELSE api_sessions
    /\ webhooks' = PostWebhook("failed", api_sessions')
    /\ worker' = [worker EXCEPT !.pc = "done"]
    /\ UNCHANGED api_request
    /\ UNCHANGED apiFrame

NextApi ==
    \/ ApiGenerateShorts
    \/ ApiGenerateVoiceover
    \/ ApiVoiceover
    \/ ApiStatus
    \/ WorkerStart
    \/ WorkerBackground
    \/ ShortsSplit
    \/ ShortsBegin
    \/ ShortsSegment
    \/ ShortsPackage
    \/ ShortsZip
    \/ ShortsComplete
    \/ VoiceoverPrepare
    \/ VoiceoverGenerate
    \/ VoiceoverFinish
    \/ WorkerExcept

SpecApi == InitApi /\ [][NextApi]_vars

\* the worker thread is scheduled until it returns, and the client polls
SpecApiFair == SpecApi /\ WF_vars(NextApi)

\* ------------------------------------------------------------------
\* The PDF sessions of app.py: one uploaded file, the pipeline threads that
\* /process starts for it, and the vector collection of the session.

MaxRuns == 2
MaxBatches == 2

\* the session id of the upload (uuid4)
PdfSessionId == "pdf_session"

pdfFrame == <<pipelineVars, instanceVars, concurrentVars, wrapVars,
              api_request, api_sessions, worker, webhooks>>

\* POST /upload
UploadFile ==
    /\ PdfSessionId \notin DOMAIN processing_sessions
    /\ \E mode \in {"ocr", "direct"} :
           processing_sessions' =
               [s \in {PdfSessionId} |->
                   [status |-> "uploaded", merged_file |-> FALSE, mode |-> mode]]
    /\ UNCHANGED <<collection, runs>>
    /\ UNCHANGED pdfFrame

\* GET /process/<session_id>: a new pipeline thread for every request
ProcessPdf ==
    /\ PdfSessionId \in DOMAIN processing_sessions
    /\ Len(runs) < MaxRuns
    /\ runs' = Append(runs, [pc |-> "prepare", added |-> 0, completed |-> FALSE])
    /\ UNCHANGED <<processing_sessions, collection>>
    /\ UNCHANGED pdfFrame

\* the steps before the vector database: split, OCR, merge and text
\* extraction, or the direct text extraction; an error ends the run
PipelinePrepare(r) ==
    /\ runs[r].pc = "prepare"
    /\ \E ok \in BOOLEAN :
           runs' = [runs EXCEPT ![r].pc = IF ok THEN "vector_db" ELSE "failed"]
    /\ UNCHANGED <<processing_sessions, collection>>
    /\ UNCHANGED pdfFrame

\* create_vector_db: the existing collection of the session is deleted and a
\* new, empty one is created
VectorReset(r) ==
    /\ runs[r].pc = "vector_db"
    /\ \E outcome \in {"created", "no_client", "create_failed"} :
        /\ collection' = IF outcome = "no_client" THEN collection
                         ELSE IF outcome = "create_failed" THEN NoCollection
                         ELSE [exists |-> TRUE, owner |-> r, batches |-> 0]
        /\ runs' = [runs EXCEPT ![r].pc = IF outcome = "created" THEN "add" ELSE "failed"]
    /\ UNCHANGED processing_sessions
    /\ UNCHANGED pdfFrame

\* create_vector_db: one batch of chunks is embedded and added to the
\* collection this run created
VectorAdd(r) ==
    /\ runs[r].pc = "add"
    /\ \E ok \in BOOLEAN :
        IF ok /\ collection.exists /\ collection.owner = r
        THEN /\ collection' = [collection EXCEPT !.batches = @ + 1]
             /\ runs' = [runs EXCEPT
                            ![r].added = @ + 1,
                            ![r].pc = IF runs[r].added + 1 = MaxBatches
                                      THEN "record" ELSE "add"]
        ELSE /\ runs' = [runs EXCEPT ![r].pc = "failed"]
             /\ UNCHANGED collection
    /\ UNCHANGED processing_sessions
    /\ UNCHANGED pdfFrame

\* process_pdf_pipeline: merged_file, text_content, then status 'completed'
PipelineComplete(r) ==
    /\ runs[r].pc = "record"
    /\ processing_sessions[PdfSessionId].mode = "ocr"
    /\ processing_sessions' = [processing_sessions EXCEPT
                                  ![PdfSessionId].merged_file = TRUE,
                                  ![PdfSessionId].status = "completed"]
    /\ runs' = [runs EXCEPT ![r].pc = "notify", ![r].completed = TRUE]
    /\ UNCHANGED collection
    /\ UNCHANGED pdfFrame

\* process_direct_upload_pipeline: status 'completed' is assigned first
DirectComplete(r) ==
    /\ runs[r].pc = "record"
    /\ processing_sessions[PdfSessionId].mode = "direct"
    /\ processing_sessions' = [processing_sessions EXCEPT
                                  ![PdfSessionId].status = "completed"]
    /\ runs' = [runs EXCEPT ![r].pc = "record_file", ![r].completed = TRUE]
    /\ UNCHANGED collection
    /\ UNCHANGED pdfFrame

\* process_direct_upload_pipeline: then merged_file
DirectMerged(r) ==
    /\ runs[r].pc = "record_file"
    /\ processing_sessions' = [processing_sessions EXCEPT
                                  ![PdfSessionId].merged_file = TRUE]
    /\ runs' = [runs EXCEPT ![r].pc = "notify"]
    /\ UNCHANGED collection
    /\ UNCHANGED pdfFrame

\* cleanup, url_for and the completion event: an error here goes to the
\* handler of the pipeline, which leaves the status as it is
PipelineNotify(r) ==
    /\ runs[r].pc = "notify"
    /\ \E ok \in BOOLEAN :
           runs' = [runs EXCEPT ![r].pc = IF ok THEN "done" ELSE "failed"]
    /\ UNCHANGED <<processing_sessions, collection>>
    /\ UNCHANGED pdfFrame

NextPdf ==
    \/ UploadFile
    \/ ProcessPdf
    \/ \E r \in 1..Len(runs) : PipelinePrepare(r)
    \/ \E r \in 1..Len(runs) : VectorReset(r)
    \/ \E r \in 1..Len(runs) : VectorAdd(r)
    \/ \E r \in 1..Len(runs) : PipelineComplete(r)
    \/ \E r \in 1..Len(runs) : DirectComplete(r)
    \/ \E r \in 1..Len(runs) : DirectMerged(r)
    \/ \E r \in 1..Len(runs) : PipelineNotify(r)

SpecPdf == InitApi /\ [][NextPdf]_vars

\* ------------------------------------------------------------------ claims
CaptionDuration(c) == RSub(c.end, c.start)
MinCaptionSeconds == Rat(3, 2)

\* C1 (as claimed): for a text that is not blank and an audio duration > 0 the
\* caption list is non-empty, its first caption starts at 0 and its last
\* caption ends exactly at the audio duration.
C1_CaptionCoverage ==
    (pc = "fn_timed" /\ Strip(text) # <<>> /\ duration.n > 0)
        => /\ captions # <<>>
           /\ captions[1].start = RZero
           /\ captions[Len(captions)].end = duration

\* C2: captions are in non-decreasing start order and consecutive captions do
\* not overlap: captions[i].end <= captions[i+1].start.
C2_CaptionNonOverlap ==
    \A i \in 1..(Len(captions) - 1) :
        /\ RLe(captions[i].start, captions[i + 1].start)
        /\ RLe(captions[i].end, captions[i + 1].start)

C2_Witness == pc = "fn_timed" /\ Len(captions) >= 3

CaptionWords == SumWordCounts([k \in 1..Len(captions) |-> captions[k].word_count])

RECURSIVE BlankPauseMarkers(_)
BlankPauseMarkers(s) ==
    IF s = <<>> THEN <<>>
    ELSE <<IF IsPauseMarker(Head(s)) THEN " " ELSE Head(s)>> \o BlankPauseMarkers(Tail(s))

ContentWords(s) == SplitWords(BlankPauseMarkers(s))

\* C6: the text segments of a script (its pause segments, its TTS chunks),
\* joined in order with pause markers ignored and whitespace normalized, are
\* the words of the script: none dropped, duplicated or reordered.
C6_SegmentationRoundTrip ==
    /\ pc = "fn_segments" => ContentWords(JoinSpace(segments)) = ContentWords(text)
    /\ pc = "fn_chunks" => ContentWords(JoinSpace(text_chunks)) = ContentWords(text)

\* a text cut into three chunks or more
C6_Witness == pc = "fn_chunks" /\ Len(text_chunks) >= 3

\* ---- claims about one generate_speech request
IsLetter(c) == ~IsSpace(c) /\ ~IsTerminator(c) /\ ~IsPauseMarker(c)

\* for every letter of a script, in order, the number of the pause segment it is in
RECURSIVE LetterSegmentsAcc(_, _, _, _, _)
LetterSegmentsAcc(s, i, k, nonblank, acc) ==
    IF i > Len(s) THEN acc
    ELSE IF IsPauseMarker(s[i])
         THEN LetterSegmentsAcc(s, i + 1, IF nonblank THEN k + 1 ELSE k, FALSE, acc)
    ELSE IF IsSpace(s[i]) THEN LetterSegmentsAcc(s, i + 1, k, nonblank, acc)
    ELSE IF IsLetter(s[i]) THEN LetterSegmentsAcc(s, i + 1, k, TRUE, Append(acc, k + 1))
    ELSE LetterSegmentsAcc(s, i + 1, k, TRUE, acc)

LetterSegments(s) == LetterSegmentsAcc(s, 1, 0, FALSE, <<>>)

NumLetters(s) == Cardinality({i \in 1..Len(s) : IsLetter(s[i])})

RECURSIVE LettersBefore(_)
LettersBefore(j) ==
    IF j <= 1 THEN 0 ELSE LettersBefore(j - 1) + NumLetters(captions[j - 1].text)

\* the pause segments that caption j shows text of
CaptionSegments(j) ==
    {LetterSegments(processed_text)[n] :
        n \in (LettersBefore(j) + 1)..(LettersBefore(j) + NumLetters(captions[j].text))}

\* the summed duration of the parts placed before the k-th speech part
RECURSIVE PartOffsetAcc(_, _, _, _)
PartOffsetAcc(parts, i, k, acc) ==
    IF i > Len(parts) THEN acc
    ELSE IF parts[i].kind = "speech" /\ k = 1 THEN acc
    ELSE PartOffsetAcc(parts, i + 1, IF parts[i].kind = "speech" THEN k - 1 ELSE k,
                       RAdd(acc, parts[i].seconds))

PartOffset(k) == PartOffsetAcc(temp_audio_files, 1, k, RZero)

\* C3 (as claimed): in the video of a script split by pause markers, every
\* caption showing text of part k starts no earlier than the summed duration
\* of the speech parts and pauses before part k.
C3_MultiSegmentOffsets ==
    (pc = "done" /\ result.success /\ format = "mp4" /\ temp_audio_path = WithPausesPath)
        => \A j \in 1..Len(captions) :
               \A k \in CaptionSegments(j) : RLe(PartOffset(k), captions[j].start)

\* C5 (as claimed): every text handed to the TTS backend is at most
\* max_input_chars long, on every path.
C5_MaxCharsBound ==
    \A i \in 1..Len(calls) :
        calls[i].op = "tts" => Len(calls[i].text) <= max_input_chars

PartKinds == [k \in 1..Len(temp_audio_files) |-> temp_audio_files[k].kind]

\* C7: in the part sequence of a script with pause markers no text segment is
\* empty, no two pauses are adjacent, and the sequence neither starts nor,
\* once built, ends with a pause.
C7_PauseStructure ==
    /\ \A k \in 1..Len(segments) : Strip(segments[k]) # <<>>
    /\ \A k \in 1..Len(temp_audio_files) :
           temp_audio_files[k].kind = "speech" => Strip(temp_audio_files[k].text) # <<>>
    /\ \A k \in 1..(Len(PartKinds) - 1) :
           ~(PartKinds[k] = "silence" /\ PartKinds[k + 1] = "silence")
    /\ PartKinds # <<>> => PartKinds[1] = "speech"
    /\ (Len(segments) > 1 /\ idx > Len(segments)) => PartKinds[Len(PartKinds)] = "speech"

\* three segments and two pauses built from a script with a leading, a
\* repeated and a trailing marker
C7_Witness ==
    /\ pc = "pause_concat"
    /\ PartKinds = <<"speech", "silence", "speech", "silence", "speech">>
    /\ IsPauseMarker(processed_text[1])
    /\ IsPauseMarker(processed_text[Len(processed_text)])
    /\ \E i \in 1..(Len(processed_text) - 1) :
           IsPauseMarker(processed_text[i]) /\ IsPauseMarker(processed_text[i + 1])

IsMultiSegment == Len(segments) > 1 \/ Len(text_chunks) > 1
RequestSegments == IF Len(segments) > 1 THEN segments ELSE text_chunks
IsTtsCall(c) == c.op = "tts"
TtsCalls == SelectSeq(calls, IsTtsCall)
IsSpeechPart(part) == part.kind = "speech"
SpeechParts == SelectSeq(temp_audio_files, IsSpeechPart)

\* C8: in a request of several segments a failed TTS call (or a failed write
\* of its audio) is the request's last external call and makes the request
\* fail with nothing in the output folder; a successful result has every
\* segment synthesized, in order, none omitted.
C8_SynthesisFailureFatal ==
    IsMultiSegment =>
        /\ \A i \in 1..Len(calls) :
               (calls[i].op = "tts" /\ ~calls[i].ok)
                   => /\ i = Len(calls)
                      /\ pc = "done"
                      /\ result.returned /\ ~result.success
                      /\ output_folder = {}
        /\ result.success
               => /\ [k \in 1..Len(TtsCalls) |-> TtsCalls[k].text] = RequestSegments
                  /\ [k \in 1..Len(SpeechParts) |-> SpeechParts[k].text] = RequestSegments

\* the TTS call of a later segment failed and the request returned a failure
C8_Witness ==
    /\ pc = "done"
    /\ IsMultiSegment
    /\ Len(TtsCalls) >= 2
    /\ calls[Len(calls)].op = "tts" /\ ~calls[Len(calls)].ok
    /\ result.returned /\ ~result.success

InvalidRequest ==
    \/ text = <<>> \/ Strip(text) = <<>>
    \/ voice \notin available_voices
    \/ RLt(speed, Rat(1, 4)) \/ RLt(Rat(4, 1), speed)
    \/ format \notin supported_formats
ValidationMessages ==
    {"Text is required", "Invalid voice", "Speed must be between 0.25 and 4.0",
     "Unsupported format"}
NoExternalCall == calls = <<>> /\ tmp = {} /\ output_folder = {}

\* C9 (as claimed): a request with a blank text, an unsupported voice, a speed
\* outside [0.25, 4.0] or an unsupported format returns a failure carrying the
\* validation message, and no external call is made for it.
C9_ValidationMessageFirst ==
    InvalidRequest =>
        /\ NoExternalCall
        /\ pc = "done" => /\ result.returned /\ ~result.success
                          /\ result.error \in ValidationMessages

\* C9 (amended): such a request returns a failure and no external call is made
\* for it; the failure carries the validation message when the TTS client is
\* configured, and "OpenAI API key not configured" when it is not.
C9_ValidationBeforeCalls ==
    InvalidRequest =>
        /\ NoExternalCall
        /\ pc \in {"start", "done"}
        /\ pc = "done" =>
               /\ result.returned /\ ~result.success
               /\ openai_client => result.error \in ValidationMessages
               /\ ~openai_client => result.error = "OpenAI API key not configured"

\* a request with a configured client and a speed out of range has returned
C9_Witness ==
    /\ pc = "done"
    /\ openai_client
    /\ Strip(text) # <<>> /\ voice \in available_voices
    /\ RLt(speed, Rat(1, 4))
    /\ result.error = "Speed must be between 0.25 and 4.0"

\* C10 (as claimed): when generate_speech has returned, none of the temporary
\* files of the request exists any more.
C10_TempFilesReleased == pc = "done" => tmp = {}

\* C11 (as claimed): whenever generate_speech returns a failure, no file of
\* the request is left in the output folder, also when the renderer or the WAV
\* converter had started writing the final path before failing.
C11_NoPartialOutput ==
    (pc = "done" /\ result.returned /\ ~result.success) => output_folder = {}

IsRenderCall(c) == c.op = "render"
RenderCalls == SelectSeq(calls, IsRenderCall)

\* C12 (as claimed): a failed first render is followed by a second render
\* (waveform background) and, if that fails, by a third (flat colour); the
\* request fails with a render error only after three failed renders.
C12_RenderFallbackChain ==
    (pc = "done" /\ RenderCalls # <<>> /\ ~RenderCalls[1].ok)
        => /\ Len(RenderCalls) >= 2
           /\ ~result.success => Len(RenderCalls) = 3

\* generate_speech has a defined next step: no index or branch is out of range
StepDefined ==
    /\ pc \in {"start", "pauses", "segment", "pause_concat", "chunking", "single", "chunks",
               "chunk_concat", "output", "done"}
    /\ pc = "segment" => idx \in 1..Len(segments)
    /\ pc = "chunks" => idx \in 1..Len(text_chunks)
    /\ pc = "single" => Len(text_chunks) = 1
    /\ pc = "output" => format \in {"mp3", "wav", "mp4"} /\ temp_audio_path \in tmp

\* C15: generate_speech always comes to a return, and what it returns is
\* either a success whose output file exists in the output folder, or a
\* failure with an error message.
C15_StructuredResult ==
    /\ StepDefined
    /\ pc = "done" =>
           /\ result.returned
           /\ result.success => FinalPath \in output_folder /\ result.error = ""
           /\ ~result.success => result.error # ""

\* the external command returned 0 without leaving the final file
C15_Witness ==
    /\ pc = "done" /\ calls # <<>>
    /\ calls[Len(calls)].op \in {"render", "wav"} /\ calls[Len(calls)].ok
    /\ FinalPath \notin output_folder
    /\ ~result.success

IsProbeCall(c) == c.op = "probe"
FailedProbePaths == {calls[i].path : i \in {j \in 1..Len(calls) : IsProbeCall(calls[j]) /\ ~calls[j].ok}}

\* C16: a failed duration probe never ends the request: the default of 10
\* seconds is recorded for the probed file, and the request goes on to the
\* next step (next part, concatenation, output).
C16_ProbeFailureNotFatal ==
    /\ \A k \in 1..Len(temp_audio_files) :
           temp_audio_files[k].path \in FailedProbePaths
               => temp_audio_files[k].seconds = ProbeFallbackSeconds
    /\ (SinglePath \in FailedProbePaths) => duration = ProbeFallbackSeconds
    /\ (calls # <<>> /\ IsProbeCall(calls[Len(calls)]) /\ ~calls[Len(calls)].ok)
           => /\ pc \in {"segment", "pause_concat", "chunks", "chunk_concat", "output"}
              /\ ~result.returned

\* a video request whose probes failed has returned a success
C16_Witness ==
    /\ pc = "done" /\ result.success /\ format = "mp4"
    /\ FailedProbePaths # {}
    /\ Len(temp_audio_files) >= 2
    /\ duration.n > 0

IsConcatCall(c) == c.op = "concat"
ConcatCalls == SelectSeq(calls, IsConcatCall)

\* C17 (as claimed): a failed stream-copy concatenation is followed by a
\* second, re-encoding concatenation, and the request fails with an assembly
\* error only when that second one failed too.
C17_ConcatFallback ==
    (pc = "done" /\ ConcatCalls # <<>> /\ ~ConcatCalls[1].ok)
        => Len(ConcatCalls) = 2

IsSilencePart(part) == part.kind = "silence"
SilenceParts == SelectSeq(temp_audio_files, IsSilencePart)

\* C18 (as claimed): a script of N text segments separated by pause markers
\* yields a part sequence with N-1 pause parts, also when the encoding of the
\* silence clip failed.
C18_SilenceAlwaysProduced ==
    pc = "pause_concat" => Len(SilenceParts) = Len(segments) - 1

RECURSIVE SumSeconds(_)
SumSeconds(parts) ==
    IF parts = <<>> THEN RZero ELSE RAdd(parts[1].seconds, SumSeconds(Tail(parts)))

OkProbePaths == {calls[i].path : i \in {j \in 1..Len(calls) : IsProbeCall(calls[j]) /\ calls[j].ok}}
ProbedPaths == OkProbePaths \cup FailedProbePaths
Assembled == pc \in {"output", "done"} /\ temp_audio_path \in {WithPausesPath, CombinedPath}

\* C19 (as claimed): the total duration of an assembled multi-part track is
\* the sum of the probed durations of its parts, speech and pause parts alike.
C19_SumOfProbedParts ==
    Assembled =>
        /\ duration = SumSeconds(temp_audio_files)
        /\ \A k \in 1..Len(temp_audio_files) : temp_audio_files[k].path \in OkProbePaths

\* C19 (amended): the total duration of an assembled multi-part track is the
\* sum of the durations recorded for its parts: for a speech part its probed
\* duration, or the default of 10 seconds when the probe failed; for a pause
\* part the configured pause length, which is not probed.
C19_SumOfRecordedParts ==
    /\ total_duration = SumSeconds(temp_audio_files)
    /\ \A k \in 1..Len(temp_audio_files) :
           /\ IsSpeechPart(temp_audio_files[k]) => temp_audio_files[k].path \in ProbedPaths
           /\ IsSilencePart(temp_audio_files[k])
                  => /\ temp_audio_files[k].seconds = pause_silence_seconds
                     /\ temp_audio_files[k].path \notin ProbedPaths
    /\ Assembled => duration = SumSeconds(temp_audio_files)

\* an assembled track of two speech parts, one of them 2.5 s, and a pause
C19_Witness ==
    /\ Assembled
    /\ Len(SpeechParts) = 2 /\ Len(SilenceParts) = 1
    /\ SpeechParts[2].seconds = Rat(5, 2)
    /\ duration = RAdd(RAdd(SpeechParts[1].seconds, pause_silence_seconds), Rat(5, 2))

\* C20: the parts of a request are synthesized, measured and put on the
\* manifest one at a time in script order: the TTS calls are made for the
\* segments in order, each successful one is followed at once by the probe of
\* the file it wrote, and the speech parts of the manifest are the segments
\* synthesized so far, in script order.
C20_InOrderSynthesis ==
    IsMultiSegment =>
        /\ Len(TtsCalls) <= Len(RequestSegments)
        /\ \A k \in 1..Len(TtsCalls) : TtsCalls[k].text = RequestSegments[k]
        /\ \A i \in 1..Len(calls) :
               (calls[i].op = "tts" /\ calls[i].ok)
                   => /\ i < Len(calls)
                      /\ IsProbeCall(calls[i + 1])
                      /\ calls[i + 1].path = calls[i].path
        /\ Len(SpeechParts) <= Len(RequestSegments)
        /\ \A k \in 1..Len(SpeechParts) :
               /\ SpeechParts[k].text = RequestSegments[k]
               /\ SpeechParts[k].path \in ProbedPaths

\* three segments synthesized and measured, the manifest complete
C20_Witness ==
    /\ pc \in {"pause_concat", "chunk_concat"}
    /\ Len(RequestSegments) >= 3
    /\ Len(SpeechParts) = Len(RequestSegments)

\* the duration recorded for the audio of the request, as the renderer takes it
C23_RecordedDuration == IF duration.n = 0 THEN RenderFallbackSeconds ELSE duration

C23_Rendered == pc = "done" /\ format = "mp4" /\ calls # <<>> /\ calls[Len(calls)].op = "render"

C23_RateIdentity(audio_duration) ==
    \A i \in 1..Len(captions) :
        RMul(CaptionDuration(captions[i]), Rat(CaptionWords, 1))
            = RMul(audio_duration, Rat(captions[i].word_count, 1))

\* C23 (as claimed): the captions of a rendered video are timed from a
\* measured audio duration, no fixed duration standing in for it: every probe
\* of the request succeeded, the duration is not replaced by a default, and
\* duration_i * total_words = audio_duration * words_i.
C23_MeasuredRate ==
    (C23_Rendered /\ captions # <<>>) =>
        /\ FailedProbePaths = {}
        /\ duration.n # 0
        /\ C23_RateIdentity(duration)

\* C23 (amended): the captions of a rendered video are timed from the
\* duration recorded for the audio of the request, which is the probed
\* duration, or the sum over the parts with the default of 10 seconds for a
\* part whose probe failed, or 30 seconds when that duration is 0:
\* duration_i * total_words = audio_duration * words_i, and no fixed
\* speaking rate enters.
C23_RecordedRate ==
    C23_Rendered =>
        /\ C23_RateIdentity(C23_RecordedDuration)
        /\ \A i \in 1..Len(captions) : captions[i].word_count > 0

\* a rendered video with several captions of different word counts, timed
\* from a duration that holds the 10-second default of a failed probe
C23_Witness ==
    /\ C23_Rendered
    /\ Len(captions) >= 2
    /\ captions[1].word_count # captions[2].word_count
    /\ FailedProbePaths # {}
    /\ duration # RenderFallbackSeconds

\* ---- claims about concurrent requests
\* C13 (as claimed): the temporary paths and the final path written by one
\* request are written by no other concurrent request, whatever the source of
\* the filename.
C13_NoFileCollision ==
    \A f \in files : \A g \in files : f[1] # g[1] => f[2] # g[2]

\* C14 (as claimed): every request's video is rendered with the frame size and
\* the caption line budget of its own generation_type, under every
\* interleaving of the concurrent requests.
C14_OwnDimensions ==
    \A r \in DOMAIN requests :
        requests[r].pc = "c_done" =>
            /\ requests[r].frame = <<VideoWidth(requests[r].generation_type),
                                     VideoHeight(requests[r].generation_type)>>
            /\ requests[r].line_chars = LineChars(VideoWidth(requests[r].generation_type))

CaptionBoundaries == {captions[i].start : i \in 1..Len(captions)}
                         \cup {captions[i].end : i \in 1..Len(captions)}

\* C22 (as claimed): at no time, the caption boundaries included, are the
\* overlays of two captions enabled together.
C22_HalfOpenWindows ==
    pc = "fn_timed" =>
        \A t \in CaptionBoundaries :
            \A i \in 1..Len(captions) : \A j \in 1..Len(captions) :
                (OverlayEnabled(captions[i], t) /\ OverlayEnabled(captions[j], t)) => i = j

\* C24 (as claimed): every line that wrap_text_for_video produces has at most
\* max_chars_per_line characters.
C24_LineBudget ==
    pc = "fn_wrapped" => \A k \in 1..Len(lines) : Len(lines[k]) <= max_chars

\* ---- claims about the API sessions
SessionStatus == api_sessions[ApiSessionId].status
SessionProgress == api_sessions[ApiSessionId].progress

\* C25: a session starts as queued, its status only moves queued ->
\* processing -> completed or failed, completed and failed never change
\* afterwards, the entry is never removed, and a completed session holds a
\* 'result' entry.
C25_SessionLifecycle ==
    [][/\ Registered => Registered'
       /\ (~Registered /\ Registered') => SessionStatus' = "queued"
       /\ (Registered /\ SessionStatus' # SessionStatus)
              => <<SessionStatus, SessionStatus'>>
                     \in {<<"queued", "processing">>, <<"processing", "completed">>,
                          <<"processing", "failed">>}
       /\ (Registered' /\ SessionStatus' = "completed")
              => api_sessions'[ApiSessionId].result]_vars

\* a Shorts session that was seen processing and has completed with a result
C25_Witness ==
    /\ worker.pc = "done" /\ Registered
    /\ api_request.endpoint = "shorts"
    /\ api_request.reply = "processing"
    /\ SessionStatus = "completed"
    /\ api_sessions[ApiSessionId].result

\* C26 (as claimed): a request accepted by POST /api/v1/voiceover leads to a
\* call of generate_speech and to a status reply of completed or failed.
C26_AcceptedIsServed ==
    (api_request # NoApiRequest /\ api_request.endpoint = "voiceover")
        ~> (worker.invoked > 0 /\ api_request.reply \in {"completed", "failed"})

\* C27 (as claimed): every video of the ZIP is stored under the name made from
\* the segment it was generated from.
C27_ZipNaming ==
    worker.pc \in {"complete", "done"} =>
        \A k \in 1..Len(worker.zip) : worker.zip[k].name = worker.zip[k].video

\* C28 (as claimed): a request with a webhook_url gets exactly one webhook
\* POST over its life, sent when the session has its terminal status and
\* carrying that status.
C28_WebhookDelivery ==
    (api_request # NoApiRequest /\ api_request.webhook_url) =>
        /\ Len(webhooks) <= 1
        /\ worker.pc = "done" => Len(webhooks) = 1
        /\ \A k \in 1..Len(webhooks) :
               /\ webhooks[k].status \in {"completed", "failed"}
               /\ webhooks[k].session = webhooks[k].status

\* C30: from one update of a session to the next the progress does not
\* decrease unless the session has failed, and the progress is 100 only in a
\* completed session.
C30_ProgressMonotone ==
    [][/\ (Registered /\ Registered' /\ SessionStatus' # "failed")
              => SessionProgress' >= SessionProgress
       /\ (Registered' /\ SessionProgress' = 100) => SessionStatus' = "completed"]_vars

\* a Shorts session of three segments, with a background image, at 100
C30_Witness ==
    /\ Registered
    /\ api_request.endpoint = "shorts"
    /\ api_request.script_segments = MaxSegments
    /\ api_request.background_image_url
    /\ Len(worker.video_files) >= 2
    /\ SessionProgress = 100

\* ---- claims about the PDF sessions
\* C29 (as claimed): a session with status 'completed' has its merged file
\* recorded and its vector collection fully created, however often /process
\* was requested, and a run that failed has not set the status to 'completed'.
C29_CompletedIsComplete ==
    /\ (PdfSessionId \in DOMAIN processing_sessions
            /\ processing_sessions[PdfSessionId].status = "completed")
           => /\ processing_sessions[PdfSessionId].merged_file
              /\ collection.exists
              /\ collection.batches = MaxBatches
    /\ \A r \in 1..Len(runs) : runs[r].pc = "failed" => ~runs[r].completed

====
